---- MODULE Spec2Model ----
(***************************************************************************)
(* QScrollArea (ui/src/components/scroll-area/QScrollArea.js): the scroll  *)
(* state of the component, its derived geometry, the visibility timer, the *)
(* debounced 'scroll' emission, thumb panning, track clicks and the public *)
(* methods.  JavaScript numbers are modelled as exact rationals extended   *)
(* with NaN, +Infinity and -Infinity (signed zero is not distinguished).   *)
(***************************************************************************)
EXTENDS Integers, Sequences, FiniteSets, TLC

(***************************************************************************)
(* Bounds of the model.                                                    *)
(***************************************************************************)
\* props.delay, counted in clock ticks
Delay == 2
\* the largest pan distance delivered by the gesture recognizer, in DistUnit
MaxDist == 1
\* the largest extent of the geometry runs, in tens of pixels
MaxGeom == 12

\* container extents delivered by the container resize observer
ContainerHeights == {50, 100}
ContainerWidths == {100}
\* content extents delivered by the content resize observer
ContentHeights == {100, 200}
ContentWidths == {200}
\* content heights delivered while the thumbs and the tracks are used
DragContentHeights == {200}
\* offsets the user scrolls the native target to
UserOffsets == {0, 50}
\* pointer coordinates of track clicks
ClickOffsets == {50, 75}
\* extents delivered while the thumbs hide and show: the content is higher
\* than the container, and as wide
IdleContainerHeights == {100}
IdleContentHeights == {200}
IdleContentWidths == {100}
\* extents and pointer coordinates of the track click runs
ClickContainerHeights == {100, 200}
ClickContentHeights == {500, 1000}
TrackOffsets == {20, 120}
\* pan distances
Distances == {d * 25 : d \in 0..MaxDist}
\* offsets and percentages passed to the public setters
ApiOffsets == {50}
ApiPercentages == {[k |-> "fin", n |-> 1, d |-> 1]}
\* axis arguments passed to the public setters
ApiAxes == {"vertical", "horizontal", "diagonal"}
\* e.direction: the positive direction of each axis; on the other axis it
\* counts as negative
Directions == {"down", "right"}

(***************************************************************************)
(* JavaScript numbers.                                                     *)
(***************************************************************************)
Abs(i) == IF i < 0 THEN -i ELSE i

RECURSIVE GCD(_, _)
GCD(a, b) == IF b = 0 THEN a ELSE GCD(b, a % b)

\* the rational n/d (d # 0) in lowest terms with a positive denominator
Fin(n, d) ==
  LET g == GCD(Abs(n), Abs(d))
      s == IF d < 0 THEN -1 ELSE 1
  IN [k |-> "fin", n |-> (s * n) \div g, d |-> (s * d) \div g]

Num(i) == [k |-> "fin", n |-> i, d |-> 1]
NaN == [k |-> "nan", n |-> 0, d |-> 1]
\* sgn = 1: +Infinity, sgn = -1: -Infinity
Inf(sgn) == [k |-> "inf", n |-> sgn, d |-> 1]
\* the value of a variable declared and never assigned
Undefined == [k |-> "undef", n |-> 0, d |-> 1]

IsNaN(a) == a.k \in {"nan", "undef"}
IsFinite(a) == a.k = "fin"
Sign(a) == IF a.n < 0 THEN -1 ELSE IF a.n > 0 THEN 1 ELSE 0

\* a <= b on numbers neither of which is NaN
LessEq(a, b) ==
  CASE a.k = "inf" -> (a.n < 0) \/ (b.k = "inf" /\ b.n > 0)
    [] b.k = "inf" -> b.n > 0
    [] OTHER -> a.n * b.d <= b.n * a.d

Add(a, b) ==
  CASE IsNaN(a) \/ IsNaN(b) -> NaN
    [] a.k = "inf" /\ b.k = "inf" -> IF a.n = b.n THEN a ELSE NaN
    [] a.k = "inf" -> a
    [] b.k = "inf" -> b
    [] OTHER -> Fin(a.n * b.d + b.n * a.d, a.d * b.d)

Mul(a, b) ==
  CASE IsNaN(a) \/ IsNaN(b) -> NaN
    [] a.k = "inf" \/ b.k = "inf" ->
         IF Sign(a) * Sign(b) = 0 THEN NaN ELSE Inf(Sign(a) * Sign(b))
    [] OTHER -> Fin(a.n * b.n, a.d * b.d)

Neg(a) == Mul(Num(-1), a)
Sub(a, b) == Add(a, Neg(b))

Div(a, b) ==
  CASE IsNaN(a) \/ IsNaN(b) -> NaN
    [] a.k = "inf" /\ b.k = "inf" -> NaN
    [] a.k = "inf" -> Inf(IF Sign(b) < 0 THEN -a.n ELSE a.n)
    [] b.k = "inf" -> Num(0)
    [] b.n = 0 -> IF a.n = 0 THEN NaN ELSE Inf(Sign(a))
    [] OTHER -> Fin(a.n * b.d, a.d * b.n)

MathMax(a, b) ==
  IF IsNaN(a) \/ IsNaN(b) THEN NaN ELSE IF LessEq(a, b) THEN b ELSE a

MathMin(a, b) ==
  IF IsNaN(a) \/ IsNaN(b) THEN NaN ELSE IF LessEq(a, b) THEN a ELSE b

\* Math.round: the nearest integer, halves towards +Infinity
MathRound(a) ==
  IF IsNaN(a) THEN NaN
  ELSE IF a.k = "inf" THEN a
  ELSE Num((2 * a.n + a.d) \div (2 * a.d))

\* utils/format.js between(v, min, max)
between(v, min, max) ==
  IF (~IsNaN(min)) /\ (~IsNaN(max)) /\ LessEq(max, min)
  THEN min
  ELSE MathMin(max, MathMax(min, v))


(***************************************************************************)
(* State.                                                                  *)
(***************************************************************************)
axisList == {"vertical", "horizontal"}

VARIABLES
  container,    \* container[axis].value
  size,         \* scroll[axis].size.value
  position,     \* scroll[axis].position.value
  target,       \* targetRef.value.scrollTop / scrollLeft
  tempShowing,  \* tempShowing.value
  panning,      \* panning.value
  hover,        \* hover.value
  visible,      \* props.visible: "null", "true" or "false"
  hasListener,  \* an onScroll listener is registered on the component
  timer,        \* the handle kept in timer (0: never assigned)
  timeouts,     \* the pending setTimeout callbacks of startTimer: [id, left]
  panRefPos,    \* panRefPos
  dPending,     \* the pending invocations of the debounced emitScroll
  sinceNotify,  \* clock ticks since the last startTimer call (-1: none yet)
  notified,     \* the startTimer calls of the last step
  panAxis,      \* the axis of the last pan event with isFirst that was accepted
  emitted,      \* the 'scroll' payloads emitted by the last step
  errs,         \* the console.error calls of the last step
  threw,        \* the last step ended in an uncaught exception
  writes,       \* the offsets the last step assigned to the scroll target
  disposed,     \* the component has been unmounted
  op            \* the handler the last step ran

vars == <<container, size, position, target, tempShowing, panning, hover,
          visible, hasListener, timer, timeouts, panRefPos, dPending,
          sinceNotify, notified, panAxis, emitted, errs, threw, writes,
          disposed, op>>

\* the state as one record, the form the handlers below work on
Cur ==
  [container |-> container, size |-> size, position |-> position,
   target |-> target, tempShowing |-> tempShowing, panning |-> panning,
   hover |-> hover, visible |-> visible, hasListener |-> hasListener,
   timer |-> timer, timeouts |-> timeouts, panRefPos |-> panRefPos,
   dPending |-> dPending, sinceNotify |-> sinceNotify,
   notified |-> notified, panAxis |-> panAxis, emitted |-> emitted,
   errs |-> errs, threw |-> threw, writes |-> writes,
   disposed |-> disposed, op |-> op]

\* the state at the start of a handler: the outputs of the previous step are gone
Begin(name) ==
  [Cur EXCEPT !.notified = 0, !.emitted = <<>>, !.errs = 0, !.threw = FALSE,
              !.writes = <<>>, !.op = name]

Commit(s) ==
  /\ container' = s.container
  /\ size' = s.size
  /\ position' = s.position
  /\ target' = s.target
  /\ tempShowing' = s.tempShowing
  /\ panning' = s.panning
  /\ hover' = s.hover
  /\ visible' = s.visible
  /\ hasListener' = s.hasListener
  /\ timer' = s.timer
  /\ timeouts' = s.timeouts
  /\ panRefPos' = s.panRefPos
  /\ dPending' = s.dPending
  /\ sinceNotify' = s.sinceNotify
  /\ notified' = s.notified
  /\ panAxis' = s.panAxis
  /\ emitted' = s.emitted
  /\ errs' = s.errs
  /\ threw' = s.threw
  /\ writes' = s.writes
  /\ disposed' = s.disposed
  /\ op' = s.op

dirProps ==
  [vertical |-> [offset |-> "offsetY", scroll |-> "scrollTop",
                 dir |-> "down", dist |-> "y"],
   horizontal |-> [offset |-> "offsetX", scroll |-> "scrollLeft",
                   dir |-> "right", dist |-> "x"]]

(***************************************************************************)
(* Derived geometry (the computed refs).                                   *)
(***************************************************************************)
percentage(s, axis) ==
  LET p == between(Div(s.position[axis],
                       Sub(Num(s.size[axis]), Num(s.container[axis]))),
                   Num(0), Num(1))
  IN Div(MathRound(Mul(p, Num(10000))), Num(10000))

thumbHidden(s, axis) ==
  \/ /\ (IF s.visible = "null" THEN s.hover ELSE s.visible = "true") # TRUE
     /\ s.tempShowing = FALSE
     /\ s.panning = FALSE
  \/ s.size[axis] <= s.container[axis] + 1

\* the thumb size without the clamp to [50, container]
thumbSize_unclamped(s, axis) ==
  MathRound(
    Div(Num(s.container[axis] * s.container[axis]), Num(s.size[axis])))

thumbSize(s, axis) ==
  MathRound(
    between(
      Div(Num(s.container[axis] * s.container[axis]), Num(s.size[axis])),
      Num(50),
      Num(s.container[axis])))

(***************************************************************************)
(* The environment: timers, the debounce utility, the scroll target.       *)
(***************************************************************************)
\* setTimeout returns a handle no pending timeout uses
NewId(pending) ==
  CHOOSE i \in 1..(Cardinality(pending) + 1) : \A t \in pending : t.id # i

setTimeout(pending, id, delay) == pending \cup {[id |-> id, left |-> delay]}

clearTimeout(pending, id) == {t \in pending : t.id # id}

\* utils/debounce.js: a call cancels the invocation that is pending, if any,
\* and schedules one
debounce(pending) == 1

\* the largest offset the scroll target accepts on an axis
MaxOffset(s, axis) ==
  IF s.size[axis] > s.container[axis]
  THEN s.size[axis] - s.container[axis] ELSE 0

\* element.scrollTop = offset / element.scrollLeft = offset: a non-finite
\* offset counts as 0, and the element keeps the offset within its range
ScrollTo(s, axis, offset) ==
  LET o == IF IsFinite(offset) THEN offset ELSE Num(0)
      c == between(o, Num(0), Num(MaxOffset(s, axis)))
  IN [s EXCEPT !.target[axis] = c,
               !.writes = Append(@, [axis |-> axis, offset |-> offset])]

\* the element keeps its offsets within the range when its geometry changes
Reflow(s) ==
  [s EXCEPT !.target =
     [a \in axisList |-> MathMin(s.target[a], Num(MaxOffset(s, a)))]]

\* utils/scroll.js setVerticalScrollPosition / setHorizontalScrollPosition
setScrollPositionUtil(s, axis, offset) == ScrollTo(s, axis, offset)

(***************************************************************************)
(* The handlers.                                                           *)
(***************************************************************************)
\* the info object built by the debounced function
AxisInfo(s, a) ==
  [Position |-> s.position[a],
   Percentage |-> percentage(s, a),
   Size |-> s.size[a],
   ContainerSize |-> s.container[a]]

ScrollInfo(s) ==
  [vertical |-> AxisInfo(s, "vertical"),
   horizontal |-> AxisInfo(s, "horizontal")]

\* the emission scheduled by a plain setTimeout(fn, 0), bypassing debounce
emitScroll_undebounced(s) == [s EXCEPT !.dPending = @ + 1]

\* the emission made at once, with the values at the time of the call
emitScroll_immediate(s) == [s EXCEPT !.emitted = Append(@, ScrollInfo(s))]

emitScroll(s) == [s EXCEPT !.dPending = debounce(@)]

\* startTimer without the clearTimeout of the pending expiry
startTimer_noClear(s) ==
  LET s1 == [s EXCEPT !.tempShowing = TRUE]
      id == NewId(s1.timeouts)
      s2 == [s1 EXCEPT !.timer = id,
                       !.timeouts = setTimeout(@, id, Delay),
                       !.sinceNotify = 0,
                       !.notified = @ + 1]
  IN IF s2.hasListener = TRUE THEN emitScroll(s2) ELSE s2

\* startTimer that leaves the expiry of an open window where it is
startTimer_noRestart(s) ==
  LET id == NewId(s.timeouts)
      s2 == IF s.tempShowing = TRUE
            THEN [s EXCEPT !.sinceNotify = 0, !.notified = @ + 1]
            ELSE [s EXCEPT !.tempShowing = TRUE,
                           !.timer = id,
                           !.timeouts = setTimeout(@, id, Delay),
                           !.sinceNotify = 0,
                           !.notified = @ + 1]
  IN IF s2.hasListener = TRUE THEN emitScroll(s2) ELSE s2

\* startTimer that triggers the emission without asking for a listener
startTimer_unasked(s) ==
  LET s1 == IF s.tempShowing = TRUE
            THEN [s EXCEPT !.timeouts = clearTimeout(@, s.timer)]
            ELSE [s EXCEPT !.tempShowing = TRUE]
      id == NewId(s1.timeouts)
      s2 == [s1 EXCEPT !.timer = id,
                       !.timeouts = setTimeout(@, id, Delay),
                       !.sinceNotify = 0,
                       !.notified = @ + 1]
  IN emitScroll(s2)

startTimer(s) ==
  LET s1 == IF s.tempShowing = TRUE
            THEN [s EXCEPT !.timeouts = clearTimeout(@, s.timer)]
            ELSE [s EXCEPT !.tempShowing = TRUE]
      id == NewId(s1.timeouts)
      s2 == [s1 EXCEPT !.timer = id,
                       !.timeouts = setTimeout(@, id, Delay),
                       !.sinceNotify = 0,
                       !.notified = @ + 1]
  IN IF s2.hasListener = TRUE THEN emitScroll(s2) ELSE s2

\* localSetScrollPosition without the check of the axis
localSetScrollPosition_unchecked(s, axis, offset) ==
  setScrollPositionUtil(
    s, IF axis = "vertical" THEN "vertical" ELSE "horizontal", offset)

\* localSetScrollPosition that also opens the visibility window
localSetScrollPosition_notifying(s, axis, offset) ==
  IF axis \notin axisList
  THEN [s EXCEPT !.errs = @ + 1]
  ELSE startTimer(setScrollPositionUtil(s, axis, offset))

localSetScrollPosition(s, axis, offset) ==
  IF axis \notin axisList
  THEN [s EXCEPT !.errs = @ + 1]
  ELSE setScrollPositionUtil(s, axis, offset)

updateContainer(s, height, width) ==
  LET s1 == IF s.container["vertical"] # height
            THEN [s EXCEPT !.container["vertical"] = height] ELSE s
      s2 == IF s1.container["horizontal"] # width
            THEN [s1 EXCEPT !.container["horizontal"] = width] ELSE s1
      change == s.container["vertical"] # height
                  \/ s.container["horizontal"] # width
  IN IF change THEN startTimer(s2) ELSE s2

\* updateScroll that calls startTimer whether the offsets have changed or not
updateScroll_ungated(s, top, left) ==
  startTimer([s EXCEPT !.position["vertical"] = top,
                       !.position["horizontal"] = left])

updateScroll(s, top, left) ==
  LET s1 == IF s.position["vertical"] # top
            THEN [s EXCEPT !.position["vertical"] = top] ELSE s
      s2 == IF s1.position["horizontal"] # left
            THEN [s1 EXCEPT !.position["horizontal"] = left] ELSE s1
      change == s.position["vertical"] # top
                  \/ s.position["horizontal"] # left
  IN IF change THEN startTimer(s2) ELSE s2

updateScrollSize(s, height, width) ==
  LET s1 == IF s.size["horizontal"] # width
            THEN startTimer([s EXCEPT !.size["horizontal"] = width])
            ELSE s
  IN IF s1.size["vertical"] # height
     THEN startTimer([s1 EXCEPT !.size["vertical"] = height])
     ELSE s1

setScroll(s, offset, axis) == ScrollTo(s, axis, offset)

\* the position a pan event asks for
PanPos(s, e, axis) ==
  LET dProp == dirProps[axis]
      containerSize == s.container[axis]
      multiplier == Div(Sub(Num(s.size[axis]), Num(containerSize)),
                        Sub(Num(containerSize), thumbSize(s, axis)))
      distance == Num(e.distance)
  IN Add(s.panRefPos,
         Mul(Mul(Num(IF e.direction = dProp.dir THEN 1 ELSE -1), distance),
             multiplier))

\* onPanThumb that starts a drag on a hidden thumb too
onPanThumb_onHidden(s, e, axis) ==
  LET accepted == IF e.isFirst = TRUE THEN TRUE ELSE s.panning = TRUE
      s1 == IF e.isFirst = TRUE
            THEN [s EXCEPT !.panRefPos = s.position[axis], !.panning = TRUE,
                           !.panAxis = axis]
            ELSE s
      s2 == IF e.isFinal = TRUE THEN [s1 EXCEPT !.panning = FALSE] ELSE s1
  IN IF accepted THEN setScroll(s2, PanPos(s2, e, axis), axis) ELSE s

\* e: [isFirst, isFinal, distance, direction], distance being
\* e.distance[dirProps[axis].dist]
onPanThumb(s, e, axis) ==
  LET accepted == IF e.isFirst = TRUE
                  THEN thumbHidden(s, axis) # TRUE
                  ELSE s.panning = TRUE
      s1 == IF e.isFirst = TRUE
            THEN [s EXCEPT !.panRefPos = s.position[axis], !.panning = TRUE,
                           !.panAxis = axis]
            ELSE s
      s2 == IF e.isFinal = TRUE THEN [s1 EXCEPT !.panning = FALSE] ELSE s1
  IN IF accepted THEN setScroll(s2, PanPos(s2, e, axis), axis) ELSE s

\* onMousedown that maps the pointer coordinate itself, not the coordinate
\* less half the thumb
onMousedown_uncentered(s, offset, axis) ==
  IF thumbHidden(s, axis) # TRUE
  THEN setScroll(s,
                 Mul(Div(Num(offset), Num(s.container[axis])),
                     Num(s.size[axis])),
                 axis)
  ELSE s

\* offset: evt[dirProps[axis].offset]
onMousedown(s, offset, axis) ==
  IF thumbHidden(s, axis) # TRUE
  THEN LET pos == Sub(Num(offset), Div(thumbSize(s, axis), Num(2)))
       IN setScroll(s,
                    Mul(Div(pos, Num(s.container[axis])), Num(s.size[axis])),
                    axis)
  ELSE s

\* scroll[axis] is undefined for an axis that is not in axisList, and reading
\* its size property throws a TypeError
setScrollPercentage(s, axis, pct) ==
  IF axis \notin axisList
  THEN [s EXCEPT !.threw = TRUE]
  ELSE localSetScrollPosition(
         s, axis, Mul(pct, Sub(Num(s.size[axis]), Num(s.container[axis]))))

getScrollPosition(s) ==
  [top |-> s.position["vertical"], left |-> s.position["horizontal"]]

(***************************************************************************)
(* The state machine.                                                      *)
(***************************************************************************)
Init ==
  /\ container = [a \in axisList |-> 0]
  /\ size = [a \in axisList |-> 0]
  /\ position = [a \in axisList |-> Num(0)]
  /\ target = [a \in axisList |-> Num(0)]
  /\ tempShowing = FALSE
  /\ panning = FALSE
  /\ hover = FALSE
  /\ visible \in {"null"}
  /\ hasListener \in BOOLEAN
  /\ timer = 0
  /\ timeouts = {}
  /\ panRefPos = Undefined
  /\ dPending = 0
  /\ sinceNotify = -1
  /\ notified = 0
  /\ panAxis = "none"
  /\ emitted = <<>>
  /\ errs = 0
  /\ threw = FALSE
  /\ writes = <<>>
  /\ disposed = FALSE
  /\ op = "setup"

\* the container resize observer reports the size of the component, and the
\* scroll target has kept its offsets within the new range
ContainerResizeOf(heights, widths) ==
  \E h \in heights, w \in widths :
    Commit(Reflow(updateContainer(Begin("updateContainer"), h, w)))

\* the content resize observer reports the size of the content, and the
\* scroll target has kept its offsets within the new range
ContentResizeOf(heights, widths) ==
  \E h \in heights, w \in widths :
    Commit(Reflow(updateScrollSize(Begin("updateScrollSize"), h, w)))

ContainerResize == ContainerResizeOf(ContainerHeights, ContainerWidths)

ContentResize == ContentResizeOf(ContentHeights, ContentWidths)

DragContentResize == ContentResizeOf(DragContentHeights, ContentWidths)

\* the user scrolls the target natively (wheel, touch, keyboard)
UserScroll ==
  \E a \in axisList, v \in UserOffsets :
    /\ v <= MaxOffset(Cur, a)
    /\ target[a] # Num(v)
    /\ Commit([Begin("scroll") EXCEPT !.target[a] = Num(v)])

\* the scroll observer reports the offsets of the target
ScrollObserved ==
  Commit(updateScroll(Begin("updateScroll"),
                      target["vertical"], target["horizontal"]))

PanThumb ==
  \E a \in axisList, first \in BOOLEAN, final \in BOOLEAN,
     dist \in Distances, dir \in Directions :
    Commit(onPanThumb(Begin("onPanThumb"),
                      [isFirst |-> first, isFinal |-> final,
                       distance |-> dist, direction |-> dir], a))

Mousedown ==
  \E a \in axisList, c \in ClickOffsets :
    /\ c <= container[a]
    /\ Commit(onMousedown(Begin("onMousedown"), c, a))

SetScrollPosition ==
  \E axis \in ApiAxes :
    \E offset \in {Num(o) : o \in ApiOffsets}
                    \cup {getScrollPosition(Cur).top,
                          getScrollPosition(Cur).left} :
      Commit(localSetScrollPosition(Begin("setScrollPosition"), axis, offset))

SetScrollPercentage ==
  \E axis \in ApiAxes, pct \in ApiPercentages :
    Commit(setScrollPercentage(Begin("setScrollPercentage"), axis, pct))

onMouseenter ==
  /\ hover = FALSE
  /\ Commit([Begin("onMouseenter") EXCEPT !.hover = TRUE])

onMouseleave ==
  /\ hover = TRUE
  /\ Commit([Begin("onMouseleave") EXCEPT !.hover = FALSE])

\* the callback startTimer gave to setTimeout runs
Expire ==
  \E t \in timeouts :
    /\ t.left = 0
    /\ Commit([Begin("expire") EXCEPT !.tempShowing = FALSE,
                                      !.timeouts = @ \ {t}])

\* the debounced function runs
Flush ==
  /\ dPending > 0
  /\ LET s == Begin("emitScroll")
     IN Commit([s EXCEPT !.dPending = @ - 1,
                         !.emitted = Append(@, ScrollInfo(s))])

\* one unit of time passes; callbacks that are due run first
Tick ==
  /\ dPending = 0
  /\ timeouts # {}
  /\ \A t \in timeouts : t.left > 0
  /\ Commit([Begin("tick") EXCEPT
       !.timeouts = {[id |-> t.id, left |-> t.left - 1] : t \in timeouts},
       !.sinceNotify = IF @ < 0 THEN @ ELSE @ + 1])

\* the component driven by its observers, its timers and the public methods
Next ==
  \/ ContainerResize
  \/ ContentResize
  \/ UserScroll
  \/ ScrollObserved
  \/ SetScrollPosition
  \/ SetScrollPercentage
  \/ Expire
  \/ Flush
  \/ Tick

Spec == Init /\ [][Next]_vars

(***************************************************************************)
(* The visibility timer alone: the component without an onScroll listener, *)
(* driven by its observers and its timers.  A callback that is due runs,   *)
(* and time passes.                                                        *)
(***************************************************************************)
TimerInit == Init /\ hasListener = FALSE

TimerNext ==
  \/ ContainerResize
  \/ ContentResize
  \/ UserScroll
  \/ ScrollObserved
  \/ Expire
  \/ Tick

TimerSpec ==
  /\ TimerInit
  /\ [][TimerNext]_vars
  /\ WF_vars(Tick)
  /\ WF_vars(Expire)

(***************************************************************************)
(* The thumbs and the tracks: the component without an onScroll listener,  *)
(* driven by its observers, the pointer on the tracks and the TouchPan     *)
(* directive of the two thumbs, within one visibility window.              *)
(***************************************************************************)
DragInit == Init /\ hasListener = FALSE

DragNext ==
  \/ ContainerResize
  \/ DragContentResize
  \/ ScrollObserved
  \/ PanThumb
  \/ Mousedown

DragSpec == DragInit /\ [][DragNext]_vars

(***************************************************************************)
(* The geometry alone: the component driven by its two resize observers,   *)
(* over a wider range of extents.                                          *)
(***************************************************************************)
GeomSizes == {10 * i : i \in 0..MaxGeom}

GeomContainerResize == ContainerResizeOf(GeomSizes, {0})

GeomContentResize == ContentResizeOf(GeomSizes, {0})

GeomNext == GeomContainerResize \/ GeomContentResize

GeomSpec == Init /\ [][GeomNext]_vars

(***************************************************************************)
(* The tracks alone: the component without an onScroll listener, driven by *)
(* its observers and the pointer on the tracks, over larger extents and    *)
(* within one visibility window.                                           *)
(***************************************************************************)
ClickContainerResize ==
  ContainerResizeOf(ClickContainerHeights, ContainerWidths)

ClickContentResize == ContentResizeOf(ClickContentHeights, ContentWidths)

TrackMousedown ==
  \E a \in axisList, c \in TrackOffsets :
    /\ c <= container[a]
    /\ Commit(onMousedown(Begin("onMousedown"), c, a))

ClickNext ==
  \/ ClickContainerResize
  \/ ClickContentResize
  \/ ScrollObserved
  \/ TrackMousedown

ClickSpec == DragInit /\ [][ClickNext]_vars

(***************************************************************************)
(* The thumbs that hide and show: the component without an onScroll        *)
(* listener, driven by its observers, the pointer on the tracks, the       *)
(* TouchPan directive of the two thumbs and the visibility timer.          *)
(***************************************************************************)
IdleContainerResize == ContainerResizeOf(IdleContainerHeights, ContainerWidths)

IdleContentResize == ContentResizeOf(IdleContentHeights, IdleContentWidths)

IdleNext ==
  \/ IdleContainerResize
  \/ IdleContentResize
  \/ ScrollObserved
  \/ PanThumb
  \/ Mousedown
  \/ Expire
  \/ Tick

IdleSpec == DragInit /\ [][IdleNext]_vars

(***************************************************************************)
(* The life of the component: setup registers no unmount hook, so when the *)
(* component is unmounted its observers (child components) stop reporting  *)
(* and nothing else happens: the timeout of startTimer and the invocation  *)
(* of the debounced emitScroll that are pending stay with the event loop.  *)
(***************************************************************************)
Unmount ==
  /\ disposed = FALSE
  /\ Commit([Begin("unmount") EXCEPT !.disposed = TRUE])

UnmountNext ==
  \/ (disposed = FALSE /\ ContainerResize)
  \/ (disposed = FALSE /\ ContentResize)
  \/ Unmount
  \/ Expire
  \/ Flush
  \/ Tick

UnmountSpec == Init /\ [][UnmountNext]_vars

(***************************************************************************)
(* Properties.                                                             *)
(***************************************************************************)
InUnitInterval(p) ==
  IsFinite(p) /\ LessEq(Num(0), p) /\ LessEq(p, Num(1))

\* C1: in every reachable state and for each axis the percentage is a
\* number p with 0 <= p <= 1, never NaN
PercentageInUnitInterval ==
  \A a \in axisList : InUnitInterval(percentage(Cur, a))

\* C2: for each axis, 50 <= thumbSize <= container when container >= 50,
\* whatever the content extent, and thumbSize = 50 when container < 50
ThumbSizeWithinBounds ==
  \A a \in axisList :
    LET t == thumbSize(Cur, a)
    IN /\ IsFinite(t)
       /\ container[a] >= 50 =>
            LessEq(Num(50), t) /\ LessEq(t, Num(container[a]))
       /\ container[a] < 50 => t = Num(50)

\* C2: a container of 60 with a content of 70 has a thumb of round(51.43) = 51
ThumbSizeRounded ==
  /\ container["vertical"] = 60
  /\ size["vertical"] = 70
  /\ thumbSize(Cur, "vertical") = Num(51)

\* C3: from a call of startTimer on, tempShowing is true until Delay has
\* passed since the last call; it turns false only then, and it does turn
\* false when no further call is made
VisibilityExtension ==
  /\ [](sinceNotify >= 0 /\ sinceNotify < Delay => tempShowing)
  /\ [][(tempShowing /\ ~tempShowing') => sinceNotify = Delay]_vars
  /\ (tempShowing ~> (~tempShowing \/ sinceNotify = 0))

\* C3: a second call of startTimer made while the window is open has
\* extended it to the full delay
WindowExtended ==
  /\ notified = 2
  /\ tempShowing
  /\ \E t \in timeouts : t.left = Delay

\* C4: at most one visibility timeout is pending, and one is pending exactly
\* when tempShowing is true
AtMostOneTimeout ==
  /\ Cardinality(timeouts) <= 1
  /\ (timeouts # {}) <=> tempShowing

\* C4: a content resize that changed both extents has called startTimer twice
ResizeNotifiedTwice ==
  /\ op = "updateScrollSize"
  /\ notified = 2
  /\ Cardinality(timeouts) = 1

\* C5: at most one emission is queued; the handlers that change state while a
\* listener is registered leave exactly one queued; the emissions of a step
\* are the single one of the debounced function, which leaves none queued
CoalescedEmission ==
  /\ dPending <= 1
  /\ (notified > 0 /\ hasListener) => dPending = 1
  /\ Len(emitted) <= 1
  /\ emitted # <<>> => (op = "emitScroll" /\ dPending = 0)

\* C5: a handler has triggered the emission a second time before it ran
TriggeredTwice ==
  /\ hasListener
  /\ notified = 2
  /\ dPending = 1

\* C6: every payload emitted carries the positions, percentages and extents
\* of the state in which the debounced function ran
SnapshotIsCurrent ==
  \A i \in 1..Len(emitted) : emitted[i] = ScrollInfo(Cur)

\* C6: an emission made after the target was scrolled and the content resized
EmittedAfterMutations ==
  /\ emitted # <<>>
  /\ emitted[1]["vertical"].Position = Num(50)
  /\ emitted[1]["vertical"].Size = 200

\* the part of the state the handlers own
Engine(s) ==
  [container |-> s.container, size |-> s.size, position |-> s.position,
   tempShowing |-> s.tempShowing, panning |-> s.panning,
   panRefPos |-> s.panRefPos, timer |-> s.timer, timeouts |-> s.timeouts,
   dPending |-> s.dPending, emitted |-> s.emitted]

\* C7: with no emission pending, setScrollPosition(axis, v) with v the value
\* getScrollPosition() returns for the axis changes no position, does not
\* open or extend the visibility window, queues and emits nothing, and
\* leaves a target that shows that position where it is
SetCurrentPositionIsIdle ==
  dPending = 0 =>
    \A a \in axisList :
      LET b == Begin("setScrollPosition")
          v == IF a = "vertical" THEN getScrollPosition(b).top
                                 ELSE getScrollPosition(b).left
          s2 == localSetScrollPosition(b, a, v)
      IN /\ Engine(s2) = Engine(b)
         /\ s2.notified = 0
         /\ s2.errs = 0
         /\ target[a] = position[a] => s2.target = target

\* C7: setScrollPosition was called with the current position of an axis that
\* has been scrolled
CurrentPositionWritten ==
  /\ op = "setScrollPosition"
  /\ dPending = 0
  /\ position["vertical"] = Num(50)
  /\ writes = <<[axis |-> "vertical", offset |-> Num(50)]>>

\* p is an offset the scroll target accepts on the axis
InRange(p, axis) ==
  IsFinite(p) /\ LessEq(Num(0), p) /\ LessEq(p, Num(MaxOffset(Cur, axis)))

\* C8: while a drag that started at position P on an axis whose thumb can be
\* dragged is active, a pan event whose distance is back to zero leaves the
\* position of the axis at P once the scroll observer has reported the write
DragRoundTrip ==
  \A a \in axisList, final \in BOOLEAN, dir \in Directions :
    (/\ panning
     /\ panAxis = a
     /\ size[a] > container[a] + 1
     /\ InRange(panRefPos, a)) =>
      LET e == [isFirst |-> FALSE, isFinal |-> final,
                distance |-> 0, direction |-> dir]
          s1 == onPanThumb(Begin("onPanThumb"), e, a)
          s2 == updateScroll(s1, s1.target["vertical"],
                             s1.target["horizontal"])
      IN s2.position[a] = panRefPos

\* C9: setScrollPosition with an axis that is neither vertical nor horizontal
\* changes nothing, writes nothing to the target and reports once
InvalidAxisIsReportedNoop ==
  \A axis \in ApiAxes \ axisList :
    \A offset \in {Num(o) : o \in ApiOffsets} :
      LET b == Begin("setScrollPosition")
      IN localSetScrollPosition(b, axis, offset) = [b EXCEPT !.errs = 1]

\* C9: setScrollPosition has reported a wrong axis
InvalidAxisReported ==
  /\ op = "setScrollPosition"
  /\ errs = 1
  /\ writes = <<>>
  /\ tempShowing

\* C10: setScrollPercentage with an axis that is neither vertical nor
\* horizontal raises no exception, reports the axis through setScrollPosition
\* and changes nothing
InvalidAxisPercentageIsNonFatal ==
  \A axis \in ApiAxes \ axisList :
    \A pct \in ApiPercentages :
      LET b == Begin("setScrollPercentage")
          s2 == setScrollPercentage(b, axis, pct)
      IN /\ s2.threw = FALSE
         /\ s2.errs = 1
         /\ Engine(s2) = Engine(b)
         /\ s2.target = b.target

\* C11: once the component is unmounted no visibility timeout and no
\* invocation of the debounced emission is pending, so that no timer callback
\* and no emission runs after the unmount
DisposalCancels ==
  disposed => (timeouts = {} /\ dPending = 0)

\* C12: in every reachable state and for each axis the stored position lies
\* in [0, content extent - container extent]
PositionWithinRange ==
  \A a \in axisList :
    /\ IsFinite(position[a])
    /\ LessEq(Num(0), position[a])
    /\ LessEq(position[a], Num(size[a] - container[a]))

\* C13: with a container extent of 200 and a content extent of 1000 on an
\* axis, the thumb size of the axis is 40
ThumbSizeExampleIs40 ==
  \A a \in axisList :
    (container[a] = 200 /\ size[a] = 1000) => thumbSize(Cur, a) = Num(40)

\* C13 (amended): with a container extent of 200 and a content extent of
\* 1000 on an axis, the thumb size of the axis is 50, the lower bound of the
\* clamp
ThumbSizeExampleIs50 ==
  \A a \in axisList :
    (container[a] = 200 /\ size[a] = 1000) => thumbSize(Cur, a) = Num(50)

\* C13: the container is 200 high and the content 1000
ExampleExtentsReached ==
  /\ container["vertical"] = 200
  /\ size["vertical"] = 1000
  /\ op = "updateScrollSize"

\* the offset a click at coordinate c on the track of an axis maps to:
\* (c - thumbSize / 2) / container extent * content extent
ClickOffset(s, c, axis) ==
  Mul(Div(Sub(Num(c), Div(thumbSize(s, axis), Num(2))),
          Num(s.container[axis])),
      Num(s.size[axis]))

\* a click on the track of an axis whose thumb is not hidden writes exactly
\* that offset to the scroll target, once
ClickWritesMappedOffset ==
  \A a \in axisList, c \in TrackOffsets :
    (c <= container[a] /\ thumbHidden(Cur, a) # TRUE) =>
      onMousedown(Begin("onMousedown"), c, a).writes
        = <<[axis |-> a, offset |-> ClickOffset(Cur, c, a)]>>

\* the offset written by a click at coordinate 120 with a container extent of
\* 200 and a content extent of 1000 is v
ClickExampleWrites(v) ==
  \A a \in axisList :
    (/\ container[a] = 200
     /\ size[a] = 1000
     /\ thumbHidden(Cur, a) # TRUE) =>
      onMousedown(Begin("onMousedown"), 120, a).writes
        = <<[axis |-> a, offset |-> Num(v)]>>

\* C14: a click at coordinate c on the track of an axis whose thumb is not
\* hidden writes exactly (c - thumbSize / 2) / container extent * content
\* extent, with the derived thumb size; c = 120 with extents 200 and 1000
\* writes 500
TrackClickMapping ==
  ClickWritesMappedOffset /\ ClickExampleWrites(500)

\* C14 (amended): a click at coordinate c on the track of an axis whose thumb
\* is not hidden writes exactly (c - thumbSize / 2) / container extent *
\* content extent, with the derived thumb size; c = 120 with extents 200 and
\* 1000 (thumb size 50) writes 475
TrackClickMappingDerived ==
  ClickWritesMappedOffset /\ ClickExampleWrites(475)

\* C14: the track of the vertical axis was clicked at coordinate 120 with
\* extents 200 and 1000
TrackClicked ==
  /\ op = "onMousedown"
  /\ container["vertical"] = 200
  /\ size["vertical"] = 1000
  /\ writes = <<[axis |-> "vertical", offset |-> Num(475)]>>
  /\ target["vertical"] = Num(475)

\* the pan events with the given isFirst
PanEvents(first) ==
  {[isFirst |-> first, isFinal |-> final, distance |-> dist,
    direction |-> dir] :
     final \in BOOLEAN, dist \in Distances, dir \in Directions}

\* C15: while the thumb of an axis is hidden, a pan event with isFirst on the
\* axis and a click on the track of the axis each leave the whole state as
\* it is (no drag starts, no reference is captured, nothing is written to the
\* target, startTimer is not called), whatever isFinal, distance, direction
HiddenThumbIsInert ==
  \A a \in axisList :
    thumbHidden(Cur, a) = TRUE =>
      /\ \A e \in PanEvents(TRUE) :
           LET b == Begin("onPanThumb") IN onPanThumb(b, e, a) = b
      /\ \A c \in ClickOffsets :
           LET b == Begin("onMousedown") IN onMousedown(b, c, a) = b

\* C15: during a drag of the vertical thumb a pan event was ignored, which is
\* the pan event with isFirst on the horizontal thumb, hidden for want of
\* content to scroll
HiddenThumbIgnoredPan ==
  /\ op = "onPanThumb"
  /\ panning
  /\ panAxis = "vertical"
  /\ thumbHidden(Cur, "horizontal") = TRUE
  /\ writes = <<>>

\* C16: over any sequence of pan events, panning is true exactly from a pan
\* event with isFirst that was accepted (thumb not hidden) until the next pan
\* event with isFinal, after which it is false; a pan event without isFirst
\* that arrives while panning is false writes nothing and changes nothing;
\* the pan event with isFinal still has its own position written
DragSessionMachine ==
  \A a \in axisList, e \in PanEvents(TRUE) \cup PanEvents(FALSE) :
    LET b == Begin("onPanThumb")
        r == onPanThumb(b, e, a)
        started == e.isFirst /\ thumbHidden(b, a) # TRUE
        processed == started \/ (~e.isFirst /\ b.panning)
    IN /\ r.panning = IF e.isFinal THEN FALSE
                      ELSE IF started THEN TRUE ELSE b.panning
       /\ (~e.isFirst /\ ~b.panning) => r = b
       /\ (e.isFinal /\ processed) =>
            r.writes = <<[axis |-> a, offset |-> PanPos(r, e, a)]>>

\* the pan events
AllPanEvents == PanEvents(TRUE) \cup PanEvents(FALSE)

\* C17: a pan event that is processed while container extent - thumb size
\* <= 0 writes the drag reference position (multiplier 0), and no pan event
\* writes an offset that is NaN or infinite or that lies on the side of the
\* reference position opposite to the signed distance
MultiplierGuard ==
  \A a \in axisList, e \in AllPanEvents :
    LET r == onPanThumb(Begin("onPanThumb"), e, a)
        denominator == Sub(Num(r.container[a]), thumbSize(r, a))
        forward == e.direction = dirProps[a].dir
    IN \A i \in 1..Len(r.writes) :
         LET w == r.writes[i].offset
         IN /\ IsFinite(w)
            /\ LessEq(denominator, Num(0)) => w = r.panRefPos
            /\ IF forward THEN LessEq(r.panRefPos, w)
                          ELSE LessEq(w, r.panRefPos)

\* the handler has opened or extended the visibility window: tempShowing is
\* true, the one pending expiry is the full delay away, and with an onScroll
\* listener the emission is queued
WindowStarted(r) ==
  /\ r.tempShowing = TRUE
  /\ r.timeouts = {[id |-> r.timer, left |-> Delay]}
  /\ r.notified >= 1
  /\ r.hasListener = TRUE => r.dPending = 1

\* C18: a container resize, content resize or scroll event whose values all
\* equal the stored ones leaves the whole state as it is; one that changes a
\* stored value stores it, sets tempShowing, leaves the expiry scheduled the
\* full delay ahead and, with an onScroll listener, the emission queued
IntakeIsChangeGated ==
  /\ \A h \in ContainerHeights \cup {container["vertical"]},
        w \in ContainerWidths \cup {container["horizontal"]} :
       LET b == Begin("updateContainer")
           r == updateContainer(b, h, w)
       IN IF h = container["vertical"] /\ w = container["horizontal"]
          THEN r = b
          ELSE /\ WindowStarted(r)
               /\ r.container = [vertical |-> h, horizontal |-> w]
  /\ \A h \in ContentHeights \cup {size["vertical"]},
        w \in ContentWidths \cup {size["horizontal"]} :
       LET b == Begin("updateScrollSize")
           r == updateScrollSize(b, h, w)
       IN IF h = size["vertical"] /\ w = size["horizontal"]
          THEN r = b
          ELSE /\ WindowStarted(r)
               /\ r.size = [vertical |-> h, horizontal |-> w]
  /\ \A top \in {Num(v) : v \in UserOffsets} \cup {position["vertical"]},
        left \in {Num(v) : v \in UserOffsets} \cup {position["horizontal"]} :
       LET b == Begin("updateScroll")
           r == updateScroll(b, top, left)
       IN IF top = position["vertical"] /\ left = position["horizontal"]
          THEN r = b
          ELSE /\ WindowStarted(r)
               /\ r.position = [vertical |-> top, horizontal |-> left]

\* C18: while the visibility window was open and part of the delay had
\* passed, the container resize observer reported the stored extents, and
\* the window was not extended
UnchangedResizeIgnored ==
  /\ op = "updateContainer"
  /\ notified = 0
  /\ tempShowing
  /\ \E x \in timeouts : x.left < Delay

\* C19: startTimer queues the emission only when an onScroll listener is
\* registered at the time of the call; without a listener nothing is ever
\* queued or emitted, while the handlers still open the visibility window
\* and schedule its expiry
EmissionNeedsListener ==
  /\ \A l \in BOOLEAN :
       LET b == [Begin("startTimer") EXCEPT !.hasListener = l]
           r == startTimer(b)
       IN /\ r.dPending = IF l THEN 1 ELSE b.dPending
          /\ r.emitted = <<>>
          /\ r.tempShowing = TRUE
          /\ r.timeouts = {[id |-> r.timer, left |-> Delay]}
  /\ hasListener = FALSE => (dPending = 0 /\ emitted = <<>>)
  /\ emitted # <<>> => hasListener
  /\ (hasListener = FALSE /\ notified > 0) =>
       (tempShowing /\ timeouts = {[id |-> timer, left |-> Delay]})

\* C19: without a listener the scroll observer has reported a new offset:
\* the window is open, its expiry pending, and no emission is queued
TimerRunsUnobserved ==
  /\ hasListener = FALSE
  /\ op = "updateScroll"
  /\ notified = 1
  /\ tempShowing
  /\ timeouts # {}
  /\ dPending = 0

\* C20: a pan event without isFirst on an axis is processed (writes an
\* offset to the axis) only while the drag that is active started on that
\* very axis, so that the reference position it uses was captured from the
\* position of that axis by an accepted pan event with isFirst on it
PerAxisDragReference ==
  \A a \in axisList, e \in PanEvents(FALSE) :
    LET r == onPanThumb(Begin("onPanThumb"), e, a)
    IN r.writes # <<>> => (panning /\ panAxis = a)

====
